---- MODULE Spec2Model ----
(***************************************************************************)
(* Model of mm0-rs/src/lined_string.rs: the line-indexed text buffer       *)
(* LinedString (content `s` plus the line-start index `lines`), its        *)
(* position conversions, its three mutators, and apply_changes.            *)
(*                                                                         *)
(* Content is a sequence of one-byte characters (the ASCII case, where a   *)
(* char index and a byte index coincide).  Offsets are the source's        *)
(* 0-based byte offsets; TLA+ sequences are 1-based, so byte `b` of a      *)
(* string is element b+1.  Option<T> is the set {} (None) or {x}           *)
(* (Some(x)).                                                              *)
(*                                                                         *)
(* The specifications:                                                     *)
(*   Spec      a document session: a buffer built from a full-text         *)
(*             snapshot has batches of change events applied to it by      *)
(*             apply_changes, one loop iteration per step, and is          *)
(*             superseded by the returned buffer;                          *)
(*   SpecOps   arbitrary sequences of the public mutators extend,          *)
(*             extend_until and truncate on one buffer;                    *)
(*   SpecConv  the position conversions applied to the buffers built from  *)
(*             every string (the buffers that satisfy the line-index       *)
(*             invariant);                                                 *)
(*   SpecBeyond  Spec's batches, with events that start beyond the last    *)
(*             line;                                                       *)
(*   SpecReplace  Spec's batches, with ranged events after a full replace  *)
(*             that ends a full batch;                                     *)
(*   SpecRun   one call of apply_changes that, once started, keeps        *)
(*             taking steps (weak fairness of the call's steps);           *)
(*   SpecFile  FileRef handles made by new, from_url and clone;            *)
(*   SpecSpan  a Span built by one of its From conversions and iterated    *)
(*             from either end.                                            *)
(***************************************************************************)
EXTENDS Integers, Sequences, FiniteSets, TLC

\* ---------------------------------------------------------------- bounds
MaxLen == 3      \* longest initial document / adopted snapshot (Spec)
MaxText == 1     \* longest replacement text of one change event
MaxEvents == 2   \* most events in one batch
MaxBuf == 4      \* longest buffer content the mutators may build (SpecOps)
MaxSrc == 2      \* longest argument string of a mutator (SpecOps)
MaxCoord == 2    \* largest line / character of a Position argument (SpecOps)
MaxStr == 4      \* longest content of a buffer that is converted (SpecConv)
MaxTrail == 1    \* most events after a full batch that ends in a replace (SpecReplace)
MaxFiles == 4    \* most FileRef handles alive at once (SpecFile)
MaxOff == 3      \* largest offset a Span is built from (SpecSpan)
MaxYield == 4    \* most next / next_back calls on one Span (SpecSpan)

\* ------------------------------------------------------------ characters
NL == "\n"
Alphabet == {"a", "b", NL}
Strs(n) == UNION {[1..k -> Alphabet] : k \in 0..n}

Min(x, y) == IF x <= y THEN x ELSE y

\* s[from..] for a 0-based byte offset `from`
Suffix(s, from) == SubSeq(s, from + 1, Len(s))
\* s[..to] for a 0-based exclusive byte offset `to`
Prefix(s, to) == SubSeq(s, 1, to)

\* Option<T>
None == {}
Some(x) == {x}
Unwrap(o) == CHOOSE x \in o : TRUE

\* lsp_types::Position and its derived lexicographic order
Position(l, c) == [line |-> l, character |-> c]
PosLt(p, q) == p.line < q.line \/ (p.line = q.line /\ p.character < q.character)
PosLe(p, q) == p = q \/ PosLt(p, q)

\* ------------------------------------------------------------ LinedString
LinedString(str, ls) == [s |-> str, lines |-> ls]
Default == LinedString(<<>>, <<>>)

\* get_lines: b + 1 for every byte offset b holding a newline, in order
get_lines(s) ==
  SelectSeq([i \in 1..Len(s) |-> i], LAMBDA i : s[i] = NL)

\* a conversion that leaves the line index empty
From_no_lines(s) == LinedString(s, <<>>)

\* impl From<String> for LinedString
From(s) == LinedString(s, get_lines(s))

\* slice::binary_search on the ascending `lines`: Ok(n) with lines[n] = idx
\* (0-based n), or Err(n) with n the number of entries below idx
binary_search(ls, idx) ==
  IF \E k \in 1..Len(ls) : ls[k] = idx
  THEN [ok |-> TRUE, n |-> (CHOOSE k \in 1..Len(ls) : ls[k] = idx) - 1]
  ELSE [ok |-> FALSE, n |-> Cardinality({k \in 1..Len(ls) : ls[k] < idx})]

\* to_pos that reports an exact match Ok(n) as line n
to_pos_wrong_line(b, idx) ==
  LET r == binary_search(b.lines, idx)
      pos == IF r.ok THEN idx ELSE IF r.n = 0 THEN 0 ELSE b.lines[r.n]
  IN Position(r.n, idx - pos)

\* to_pos that reports a miss Err(n) as line n + 1
to_pos_err_next_line(b, idx) ==
  LET r == binary_search(b.lines, idx)
      pos == IF r.ok THEN idx ELSE IF r.n = 0 THEN 0 ELSE b.lines[r.n]
  IN Position(r.n + 1, idx - pos)

\* to_pos that takes the newline itself as the start of the line after it
to_pos_newline_start(b, idx) ==
  LET r == binary_search(b.lines, idx)
      pos == IF r.ok THEN idx ELSE IF r.n = 0 THEN 0 ELSE b.lines[r.n] - 1
      line == IF r.ok THEN r.n + 1 ELSE r.n
  IN Position(line, idx - pos)

\* to_pos: Ok(n) is the start of line n + 1; Err(n) lies on line n, which
\* starts at lines[n - 1] (offset 0 for n = 0)
to_pos(b, idx) ==
  LET r == binary_search(b.lines, idx)
      pos == IF r.ok THEN idx ELSE IF r.n = 0 THEN 0 ELSE b.lines[r.n]
      line == IF r.ok THEN r.n + 1 ELSE r.n
  IN Position(line, idx - pos)

num_lines(b) == Len(b.lines)
end(b) == to_pos(b, Len(b.s))

\* to_idx that rejects an offset beyond the content
to_idx_checked(b, pos) ==
  LET r == IF pos.line = 0 THEN Some(pos.character)
           ELSE IF pos.line <= Len(b.lines)
                THEN Some(b.lines[pos.line] + pos.character)
                ELSE None
  IN IF r # None /\ Unwrap(r) > Len(b.s) THEN None ELSE r

to_idx(b, pos) ==
  IF pos.line = 0 THEN Some(pos.character)
  ELSE IF pos.line <= Len(b.lines)
       THEN Some(b.lines[pos.line] + pos.character)
       ELSE None

\* extend that records b + 1 instead of b + len + 1
extend_no_offset(b, s) ==
  LinedString(b.s \o s, b.lines \o get_lines(s))

\* extend: append s, and a line start per newline of s
extend(b, s) ==
  LET len == Len(b.s)
      new == get_lines(s)
  IN LinedString(b.s \o s, b.lines \o [k \in 1..Len(new) |-> new[k] + len])

\* the loop of extend_until's later-line branch, from char index i (1-based)
\* of s: push a line start per newline and stop after the one that brings
\* the line count to `line`; the iterator running out yields the tail "".
RECURSIVE scan(_, _, _, _, _)
scan(s, i, ls, len, line) ==
  IF i > Len(s) THEN [lines |-> ls, tail |-> <<>>]
  ELSE IF s[i] = NL
       THEN LET ls2 == Append(ls, (i - 1) + len + 1)
            IN IF line = Len(ls2)
               THEN [lines |-> ls2, tail |-> Suffix(s, i)]
               ELSE scan(s, i + 1, ls2, len, line)
       ELSE scan(s, i + 1, ls, len, line)

\* extend_until whose remainder starts one byte late
extend_until_skip_one(b, s, pos) ==
  LET e == end(b)
      same == pos.line = e.line
      sc == scan(s, 1, b.lines, Len(b.s), pos.line)
      b1 == IF same THEN b ELSE LinedString(b.s \o s, sc.lines)
      off == IF same THEN pos.character - e.character ELSE pos.character
      tail == IF same THEN s ELSE sc.tail
      split == off >= 0 /\ off < Len(tail)
      left == IF split THEN Prefix(tail, off) ELSE tail
      right == IF split THEN Suffix(tail, off + 1) ELSE <<>>
  IN [buf |-> extend(b1, left), rest |-> right, assert_ok |-> PosLe(e, pos)]

\* extend_until: the buffer afterwards, the returned remainder, and whether
\* debug_assert!(end <= pos) held.  The later-line branch pushes all of s
\* before it scans (line 138).  A negative column difference wraps to a
\* huge unsigned offset, which takes the whole tail.
extend_until(b, s, pos) ==
  LET e == end(b)
      same == pos.line = e.line
      sc == scan(s, 1, b.lines, Len(b.s), pos.line)
      b1 == IF same THEN b ELSE LinedString(b.s \o s, sc.lines)
      off == IF same THEN pos.character - e.character ELSE pos.character
      tail == IF same THEN s ELSE sc.tail
      split == off >= 0 /\ off < Len(tail)
      left == IF split THEN Prefix(tail, off) ELSE tail
      right == IF split THEN Suffix(tail, off) ELSE <<>>
  IN [buf |-> extend(b1, left), rest |-> right, assert_ok |-> PosLe(e, pos)]

\* truncate that keeps the byte at the resolved offset
truncate_one_past(b, pos) ==
  LET r == to_idx(b, pos)
  IN IF r # None /\ Unwrap(r) < Len(b.s)
     THEN LinedString(Prefix(b.s, Unwrap(r) + 1),
                      Prefix(b.lines, Min(pos.line, Len(b.lines))))
     ELSE b

\* truncate that cuts the line index whether or not the content is cut
truncate_lines_always(b, pos) ==
  LET r == to_idx(b, pos)
  IN LinedString(IF r # None /\ Unwrap(r) < Len(b.s)
                 THEN Prefix(b.s, Unwrap(r)) ELSE b.s,
                 Prefix(b.lines, Min(pos.line, Len(b.lines))))

\* truncate that keeps the line start of the line after pos.line too
truncate_keep_next_line(b, pos) ==
  LET r == to_idx(b, pos)
  IN IF r # None /\ Unwrap(r) < Len(b.s)
     THEN LinedString(Prefix(b.s, Unwrap(r)),
                      Prefix(b.lines, Min(pos.line + 1, Len(b.lines))))
     ELSE b

\* truncate: a no-op unless pos resolves strictly inside the content
truncate(b, pos) ==
  LET r == to_idx(b, pos)
  IN IF r # None /\ Unwrap(r) < Len(b.s)
     THEN LinedString(Prefix(b.s, Unwrap(r)),
                      Prefix(b.lines, Min(pos.line, Len(b.lines))))
     ELSE b

\* --------------------------------------------- the line-index invariant
NewlineCount(s) == Cardinality({i \in 1..Len(s) : s[i] = NL})

LineInv(b) ==
  /\ \A k \in 1..(Len(b.lines) - 1) : b.lines[k] < b.lines[k + 1]
  /\ \A k \in 1..Len(b.lines) :
       b.lines[k] \in 1..Len(b.s) /\ b.s[b.lines[k]] = NL
  /\ Len(b.lines) = NewlineCount(b.s)


\* ----------------------------------------------------------- change events
\* TextDocumentContentChangeEvent {range, text}: range is None for a
\* full-document replace, Some({start, end}) for a ranged replace
Ranged(st, en, text) == [range |-> Some([start |-> st, end |-> en]), text |-> text]
Full(text) == [range |-> None, text |-> text]

\* ------------------------------------------------------------ apply_changes
\* the locals of apply_changes before the first event.  `old` is the buffer
\* of a flush (None until the first one); `ok` is FALSE once the call has
\* panicked.
locals(self_) ==
  [out |-> Default, uncopied |-> self_.s, old |-> None,
   first_change |-> None, ok |-> TRUE]

\* one iteration of the `for` loop, flush omitted
loop_body_no_flush(st, ev) ==
  IF ev.range # None
  THEN LET r == Unwrap(ev.range)
           fc == IF st.first_change = None \/ PosLt(r.start, Unwrap(st.first_change))
                 THEN Some(r.start) ELSE st.first_change
           eu == extend_until(st.out, st.uncopied, r.end)
       IN [out |-> extend(truncate(eu.buf, r.start), ev.text),
           uncopied |-> eu.rest, old |-> st.old, first_change |-> fc,
           ok |-> st.ok /\ eu.assert_ok]
  ELSE [out |-> From(ev.text), uncopied |-> <<>>, old |-> st.old,
        first_change |-> Some(Position(0, 0)), ok |-> st.ok]

\* one iteration of the `for` loop that records the latest start, not the
\* least
loop_body_last_start(st, ev) ==
  IF ev.range # None
  THEN LET r == Unwrap(ev.range)
           flush == PosLt(r.start, end(st.out))
           flushed == extend(st.out, st.uncopied)
           old1 == IF flush THEN Some(flushed) ELSE st.old
           out1 == IF flush THEN Default ELSE st.out
           unc1 == IF flush THEN flushed.s ELSE st.uncopied
           eu == extend_until(out1, unc1, r.end)
       IN [out |-> extend(truncate(eu.buf, r.start), ev.text),
           uncopied |-> eu.rest, old |-> old1, first_change |-> Some(r.start),
           ok |-> st.ok /\ eu.assert_ok]
  ELSE [out |-> From(ev.text), uncopied |-> <<>>, old |-> st.old,
        first_change |-> Some(Position(0, 0)), ok |-> st.ok]

\* one iteration of the `for` loop whose full replace leaves uncopied alone
loop_body_keep_uncopied(st, ev) ==
  IF ev.range # None
  THEN LET r == Unwrap(ev.range)
           fc == IF st.first_change = None \/ PosLt(r.start, Unwrap(st.first_change))
                 THEN Some(r.start) ELSE st.first_change
           flush == PosLt(r.start, end(st.out))
           flushed == extend(st.out, st.uncopied)
           old1 == IF flush THEN Some(flushed) ELSE st.old
           out1 == IF flush THEN Default ELSE st.out
           unc1 == IF flush THEN flushed.s ELSE st.uncopied
           eu == extend_until(out1, unc1, r.end)
       IN [out |-> extend(truncate(eu.buf, r.start), ev.text),
           uncopied |-> eu.rest, old |-> old1, first_change |-> fc,
           ok |-> st.ok /\ eu.assert_ok]
  ELSE [out |-> From(ev.text), uncopied |-> st.uncopied, old |-> st.old,
        first_change |-> Some(Position(0, 0)), ok |-> st.ok]

\* the ranged branch that cuts at the end of the range
cut_at_end(st, r) ==
  LET flush == PosLt(r.start, end(st.out))
      flushed == extend(st.out, st.uncopied)
      old1 == IF flush THEN Some(flushed) ELSE st.old
      out1 == IF flush THEN Default ELSE st.out
      unc1 == IF flush THEN flushed.s ELSE st.uncopied
      eu == extend_until(out1, unc1, r.end)
  IN [out |-> truncate(eu.buf, r.end), uncopied |-> eu.rest, old |-> old1,
      ok |-> eu.assert_ok]

\* the ranged branch of the loop up to out.truncate(start) (lines 174-180),
\* the state loop_body appends the event's text to: the flush when the range
\* starts before out's end, extend_until(uncopied, end), truncate(start)
cut(st, r) ==
  LET flush == PosLt(r.start, end(st.out))
      flushed == extend(st.out, st.uncopied)
      old1 == IF flush THEN Some(flushed) ELSE st.old
      out1 == IF flush THEN Default ELSE st.out
      unc1 == IF flush THEN flushed.s ELSE st.uncopied
      eu == extend_until(out1, unc1, r.end)
  IN [out |-> truncate(eu.buf, r.start), uncopied |-> eu.rest, old |-> old1,
      ok |-> eu.assert_ok]

\* one iteration of the `for` loop
loop_body(st, ev) ==
  IF ev.range # None
  THEN LET r == Unwrap(ev.range)
           fc == IF st.first_change = None \/ PosLt(r.start, Unwrap(st.first_change))
                 THEN Some(r.start) ELSE st.first_change
           flush == PosLt(r.start, end(st.out))
           flushed == extend(st.out, st.uncopied)
           old1 == IF flush THEN Some(flushed) ELSE st.old
           out1 == IF flush THEN Default ELSE st.out
           unc1 == IF flush THEN flushed.s ELSE st.uncopied
           eu == extend_until(out1, unc1, r.end)
       IN [out |-> extend(truncate(eu.buf, r.start), ev.text),
           uncopied |-> eu.rest, old |-> old1, first_change |-> fc,
           ok |-> st.ok /\ eu.assert_ok]
  ELSE [out |-> From(ev.text), uncopied |-> <<>>, old |-> st.old,
        first_change |-> Some(Position(0, 0)), ok |-> st.ok]

\* the last offset at which `from` and `to` differ
first_diff_last(from, to) ==
  LET D == {i \in 1..Min(Len(from), Len(to)) : from[i] # to[i]}
  IN IF D = {} THEN None
     ELSE Some((CHOOSE i \in D : \A j \in D : i >= j) - 1)

\* the first byte offset b at which `from` and `to` differ, within the
\* shorter of the two (the zip of the two char iterators)
first_diff(from, to) ==
  LET D == {i \in 1..Min(Len(from), Len(to)) : from[i] # to[i]}
  IN IF D = {} THEN None
     ELSE Some((CHOOSE i \in D : \A j \in D : i <= j) - 1)

\* the code after the loop, reporting the offset within the compared tails
finish_tail_offset(self_, st) ==
  LET o == extend(st.out, st.uncopied)
      r == IF st.first_change = None THEN None
           ELSE to_idx(o, Unwrap(st.first_change))
      start == IF r = None THEN 0 ELSE Unwrap(r)
      inb == start <= Len(self_.s) /\ start <= Len(o.s)
      d == IF inb THEN first_diff(Suffix(self_.s, start), Suffix(o.s, start))
           ELSE None
  IN [buf |-> o,
      changed |-> IF st.first_change # None /\ d # None
                  THEN to_pos(o, Unwrap(d)) ELSE end(o),
      ok |-> st.ok /\ (st.first_change = None \/ r # None),
      ub |-> st.first_change # None /\ r # None /\ ~inb]

\* the code after the loop, reading `old` whether or not a flush set it
finish_reads_old(self_, st) ==
  LET o == extend(st.out, st.uncopied)
      r == IF st.first_change = None THEN None
           ELSE to_idx(o, Unwrap(st.first_change))
      start == IF r = None THEN 0 ELSE Unwrap(r)
      inb == start <= Len(self_.s) /\ start <= Len(o.s)
      d == IF inb THEN first_diff(Suffix(self_.s, start), Suffix(o.s, start))
           ELSE None
  IN [buf |-> o,
      changed |-> IF st.first_change # None /\ d # None
                  THEN to_pos(o, Unwrap(d) + start) ELSE end(o),
      ok |-> st.ok /\ st.old # None /\ (st.first_change = None \/ r # None),
      ub |-> st.first_change # None /\ r # None /\ ~inb]

\* the code after the loop, the trailing out.extend(uncopied) left out
finish_no_tail(self_, st) ==
  LET o == st.out
      r == IF st.first_change = None THEN None
           ELSE to_idx(o, Unwrap(st.first_change))
      start == IF r = None THEN 0 ELSE Unwrap(r)
      inb == start <= Len(self_.s) /\ start <= Len(o.s)
      d == IF inb THEN first_diff(Suffix(self_.s, start), Suffix(o.s, start))
           ELSE None
  IN [buf |-> o,
      changed |-> IF st.first_change # None /\ d # None
                  THEN to_pos(o, Unwrap(d) + start) ELSE end(o),
      ok |-> st.ok /\ (st.first_change = None \/ r # None),
      ub |-> st.first_change # None /\ r # None /\ ~inb]

\* the code after the loop (the log call aside): copy the rest, then look for the first
\* difference from the resolved first_change on.  `ok` is FALSE when the
\* unwrap panics, `ub` is TRUE when get_unchecked slices past the end of a
\* string (undefined behaviour: `changed` is then meaningless).
finish(self_, st) ==
  LET o == extend(st.out, st.uncopied)
      r == IF st.first_change = None THEN None
           ELSE to_idx(o, Unwrap(st.first_change))
      start == IF r = None THEN 0 ELSE Unwrap(r)
      inb == start <= Len(self_.s) /\ start <= Len(o.s)
      d == IF inb THEN first_diff(Suffix(self_.s, start), Suffix(o.s, start))
           ELSE None
  IN [buf |-> o,
      changed |-> IF st.first_change # None /\ d # None
                  THEN to_pos(o, Unwrap(d) + start) ELSE end(o),
      ok |-> st.ok /\ (st.first_change = None \/ r # None),
      ub |-> st.first_change # None /\ r # None /\ ~inb]

\* the whole call on a batch given as a sequence
RECURSIVE run(_, _)
run(st, evs) ==
  IF evs = <<>> THEN st ELSE run(loop_body(st, Head(evs)), Tail(evs))

apply_changes(self_, evs) == finish(self_, run(locals(self_), evs))


\* ------------------------------------------------------------------ state
VARIABLES
  self,          \* the buffer apply_changes is called on (the document)
  pc,            \* "idle", "loop" (inside the for loop), "done" (returned),
                 \* "held" (the caller has used the returned buffer), "panic"
  out,           \* apply_changes: the output buffer
  uncopied,      \* apply_changes: the part of the source not yet copied
  old,           \* apply_changes: the buffer of the last flush, if any
  first_change,  \* apply_changes: Option<Position>
  batch,         \* the events the loop has consumed so far
  changed,       \* returned Position
  ret,           \* returned LinedString
  expected,      \* history: the content after replacing, event by event,
                 \* bytes [start, end) of the document by the event's text
  buf,           \* SpecOps, SpecConv: the buffer operated on
  last,          \* SpecOps: the last mutator call, with the buffer before it
  conv,          \* SpecConv: the last conversion, argument and results
  files,         \* SpecFile: the FileRef handles made so far
  span,          \* SpecSpan: the Span being iterated
  origin,        \* SpecSpan: the Span as constructed, and by which From
  yielded        \* SpecSpan: what next / next_back returned so far

vars == <<self, pc, out, uncopied, old, first_change, batch, changed, ret,
          expected, buf, last, conv, files, span, origin, yielded>>
callvars == <<out, uncopied, old, first_change, batch, changed, ret, expected>>
spanvars == <<span, origin, yielded>>
opsvars == <<buf, last, conv, files, span, origin, yielded>>

NoCall == [op |-> "none", pre |-> Default, src |-> <<>>,
           pos |-> Position(0, 0), rest |-> <<>>, assert_ok |-> TRUE]

NoConv == [op |-> "none", idx |-> 0, pos |-> Position(0, 0), back |-> None]

\* no Span in play
NoSpan ==
  /\ span = [start |-> 0, end |-> 0]
  /\ origin = [start |-> 0, end |-> 0, via |-> "none"]
  /\ yielded = <<>>

St == [out |-> out, uncopied |-> uncopied, old |-> old,
       first_change |-> first_change, ok |-> TRUE]

Idle(b) ==
  /\ self = b
  /\ pc = "idle"
  /\ out = Default /\ uncopied = <<>> /\ old = None /\ first_change = None
  /\ batch = <<>> /\ changed = Position(0, 0) /\ ret = Default
  /\ expected = b.s

\* ------------------------------------------------- Spec: document session
Init ==
  /\ \E s \in Strs(MaxLen) : Idle(From(s))
  /\ buf = Default /\ last = NoCall /\ conv = NoConv /\ files = <<>> /\ NoSpan

\* apply_changes is entered: lines 167-170
Call ==
  /\ pc = "idle"
  /\ pc' = "loop"
  /\ out' = locals(self).out
  /\ uncopied' = locals(self).uncopied
  /\ old' = locals(self).old
  /\ first_change' = locals(self).first_change
  /\ UNCHANGED <<self, batch, changed, ret, expected>>
  /\ UNCHANGED opsvars

Consume(ev, exp) ==
  LET st == loop_body(St, ev)
  IN /\ pc = "loop"
     /\ out' = st.out
     /\ uncopied' = st.uncopied
     /\ old' = st.old
     /\ first_change' = st.first_change
     /\ pc' = IF st.ok THEN "loop" ELSE "panic"
     /\ batch' = Append(batch, ev)
     /\ expected' = exp
     /\ UNCHANGED <<self, changed, ret>>
     /\ UNCHANGED opsvars

\* the loop takes the next event of a batch of at most MaxEvents events
Iterate(ev, exp) == Len(batch) < MaxEvents /\ Consume(ev, exp)

\* the iterator yields a ranged event whose start <= end are canonical
\* positions of the document as it stands
RangedEvent ==
  \E o2 \in 0..Len(expected) : \E o1 \in 0..o2 : \E t \in Strs(MaxText) :
    Iterate(Ranged(to_pos(From(expected), o1), to_pos(From(expected), o2), t),
            Prefix(expected, o1) \o t \o Suffix(expected, o2))

\* the iterator yields a full-document replace
FullEvent ==
  \E t \in Strs(MaxText) : Iterate(Full(t), t)

\* a call that patches the document in place
ReturnInPlace ==
  LET r == finish(self, St)
  IN /\ pc = "loop"
     /\ pc' = IF r.ok THEN "done" ELSE "panic"
     /\ ret' = r.buf
     /\ self' = r.buf
     /\ IF r.ub
        THEN \E o \in 0..Len(r.buf.s) : changed' = to_pos(r.buf, o)
        ELSE changed' = r.changed
     /\ UNCHANGED <<out, uncopied, old, first_change, batch, expected>>
     /\ UNCHANGED opsvars

\* the iterator is exhausted: lines 188-198
Return ==
  LET r == finish(self, St)
  IN /\ pc = "loop"
     /\ pc' = IF r.ok THEN "done" ELSE "panic"
     /\ ret' = r.buf
     /\ IF r.ub
        THEN \E o \in 0..Len(r.buf.s) : changed' = to_pos(r.buf, o)
        ELSE changed' = r.changed
     /\ UNCHANGED <<self, out, uncopied, old, first_change, batch, expected>>
     /\ UNCHANGED opsvars

\* the caller goes on to use the returned buffer while it still holds the
\* old snapshot; the call's locals are gone by then
Hold(r) ==
  /\ pc = "done"
  /\ r # ret
  /\ ret' = r
  /\ pc' = "held"
  /\ out' = Default /\ uncopied' = <<>> /\ old' = None /\ first_change' = None
  /\ batch' = <<>> /\ expected' = <<>>
  /\ UNCHANGED <<self, changed>>
  /\ UNCHANGED opsvars

HoldExtend ==
  \E t \in Strs(MaxText) : Hold(extend(ret, t))

HoldTruncate ==
  \E o \in 0..Len(ret.s) : Hold(truncate(ret, to_pos(ret, o)))

\* the returned snapshot supersedes the document
Adopt ==
  /\ pc = "done"
  /\ Len(ret.s) <= MaxLen
  /\ self' = ret
  /\ pc' = "idle"
  /\ out' = Default /\ uncopied' = <<>> /\ old' = None /\ first_change' = None
  /\ batch' = <<>> /\ changed' = Position(0, 0) /\ ret' = Default
  /\ expected' = ret.s
  /\ UNCHANGED opsvars

Next ==
  \/ Call
  \/ RangedEvent
  \/ FullEvent
  \/ Return
  \/ HoldExtend
  \/ HoldTruncate
  \/ Adopt

Spec == Init /\ [][Next]_vars

\* ------------------------------------------------- SpecOps: the mutators
\* an empty buffer (LinedString::default()) or one built from a snapshot
InitOps ==
  /\ Idle(Default)
  /\ \E s \in Strs(MaxSrc) : buf = From(s)
  /\ last = NoCall /\ conv = NoConv /\ files = <<>> /\ NoSpan

OpExtend ==
  /\ \E s \in Strs(MaxSrc) :
       /\ Len(buf.s) + Len(s) <= MaxBuf
       /\ buf' = extend(buf, s)
       /\ last' = [NoCall EXCEPT !.op = "extend", !.pre = buf, !.src = s]
  /\ UNCHANGED <<self, pc, conv, files>> /\ UNCHANGED callvars /\ UNCHANGED spanvars

\* extend_until under its precondition end() <= pos
OpExtendUntil ==
  /\ \E s \in Strs(MaxSrc) : \E l \in 0..MaxCoord : \E c \in 0..MaxCoord :
       LET r == extend_until(buf, s, Position(l, c))
       IN /\ r.assert_ok
          /\ Len(r.buf.s) <= MaxBuf
          /\ buf' = r.buf
          /\ last' = [op |-> "extend_until", pre |-> buf, src |-> s,
                      pos |-> Position(l, c), rest |-> r.rest,
                      assert_ok |-> r.assert_ok]
  /\ UNCHANGED <<self, pc, conv, files>> /\ UNCHANGED callvars /\ UNCHANGED spanvars

OpTruncate ==
  /\ \E l \in 0..MaxCoord : \E c \in 0..MaxCoord :
       /\ buf' = truncate(buf, Position(l, c))
       /\ last' = [NoCall EXCEPT !.op = "truncate", !.pre = buf,
                                 !.pos = Position(l, c)]
  /\ UNCHANGED <<self, pc, conv, files>> /\ UNCHANGED callvars /\ UNCHANGED spanvars

NextOps ==
  \/ OpExtend
  \/ OpExtendUntil
  \/ OpTruncate

SpecOps == InitOps /\ [][NextOps]_vars

\* --------------------------------------------- SpecConv: the conversions
InitConv ==
  /\ Idle(Default)
  /\ \E s \in Strs(MaxStr) : buf = From(s)
  /\ last = NoCall /\ conv = NoConv /\ files = <<>> /\ NoSpan

\* to_pos of an offset of the content, and to_idx of the result
ToPos ==
  /\ \E o \in 0..Len(buf.s) :
       conv' = [op |-> "to_pos", idx |-> o, pos |-> to_pos(buf, o),
                back |-> to_idx(buf, to_pos(buf, o))]
  /\ UNCHANGED <<self, pc, buf, last, files>> /\ UNCHANGED callvars /\ UNCHANGED spanvars

\* to_idx of any position, in range or not
ToIdx ==
  /\ \E l \in 0..MaxCoord : \E c \in 0..MaxCoord :
       conv' = [op |-> "to_idx", idx |-> 0, pos |-> Position(l, c),
                back |-> to_idx(buf, Position(l, c))]
  /\ UNCHANGED <<self, pc, buf, last, files>> /\ UNCHANGED callvars /\ UNCHANGED spanvars

NextConv ==
  \/ ToPos
  \/ ToIdx

SpecConv == InitConv /\ [][NextConv]_vars



\* ------------------------- SpecBeyond: batches with an out-of-range start
\* the iterator yields a ranged event whose start (and end) is on the line
\* after the document's last line.  `expected` follows the document the
\* code makes of it, so that in-range events may come after.
BeyondEvent ==
  \E c \in 0..MaxCoord : \E t \in Strs(MaxText) :
    LET p == Position(Len(get_lines(expected)) + 1, c)
        st == loop_body(St, Ranged(p, p, t))
    IN Iterate(Ranged(p, p, t), st.out.s \o st.uncopied)

NextBeyond ==
  \/ Call
  \/ RangedEvent
  \/ FullEvent
  \/ BeyondEvent
  \/ Return

SpecBeyond == Init /\ [][NextBeyond]_vars


\* ------------------------------------------------------ SpecFile: FileRef
\* absolute filesystem paths
Paths == {<<"a">>, <<"b">>, <<"a", "b">>}

\* Url::from_file_path (url crate): the file URL of an absolute path, with
\* no host.  Url::to_file_path: the path of a file URL whose host is absent
\* or "localhost".
from_file_path(p) == [host |-> "", path |-> p]
to_file_path(u) == u.path
Urls == {[host |-> h, path |-> p] : h \in {"", "localhost"}, p \in Paths}

\* FileRef(Arc<(PathBuf, Url)>): `arc` names the allocation, `via` and
\* `arg` record how the handle was made
FileRef(a, p, u, via, arg) ==
  [arc |-> a, path |-> p, url |-> u, via |-> via, arg |-> arg]

\* PartialEq that compares the allocations (Arc::ptr_eq)
eq_by_pointer(x, y) == x.arc = y.arc

\* impl PartialEq for FileRef: self.0 == other.0 compares the pairs
eq(x, y) == <<x.path, x.url>> = <<y.path, y.url>>

\* impl Hash for FileRef: self.0.hash(state) feeds the pair to the hasher,
\* whose state is the sequence of what it was fed
hash(x, state) == state \o <<x.path, x.url>>

FreshArc == Len(files) + 1

InitFile ==
  /\ Idle(Default)
  /\ buf = Default /\ last = NoCall /\ conv = NoConv /\ files = <<>> /\ NoSpan

FileNew ==
  /\ Len(files) < MaxFiles
  /\ \E p \in Paths :
       files' = Append(files, FileRef(FreshArc, p, from_file_path(p), "new", p))
  /\ UNCHANGED <<self, pc, buf, last, conv>> /\ UNCHANGED callvars /\ UNCHANGED spanvars

FileFromUrl ==
  /\ Len(files) < MaxFiles
  /\ \E u \in Urls :
       files' = Append(files, FileRef(FreshArc, to_file_path(u), u, "from_url", u))
  /\ UNCHANGED <<self, pc, buf, last, conv>> /\ UNCHANGED callvars /\ UNCHANGED spanvars

\* #[derive(Clone)]: another handle on the same allocation
FileClone ==
  /\ Len(files) < MaxFiles
  /\ \E i \in 1..Len(files) :
       files' = Append(files, FileRef(files[i].arc, files[i].path, files[i].url,
                                      "clone", i))
  /\ UNCHANGED <<self, pc, buf, last, conv>> /\ UNCHANGED callvars /\ UNCHANGED spanvars

NextFile ==
  \/ FileNew
  \/ FileFromUrl
  \/ FileClone

SpecFile == InitFile /\ [][NextFile]_vars


\* ------------------------------- SpecReplace: events after a full replace
\* the iterator yields one more ranged event, in range in the document as it
\* stands, after a batch of MaxEvents events that ends in a full replace
TrailingEvent ==
  /\ Len(batch) >= MaxEvents /\ Len(batch) < MaxEvents + MaxTrail
  /\ batch[MaxEvents].range = None
  /\ \E o2 \in 0..Len(expected) : \E o1 \in 0..o2 : \E t \in Strs(MaxText) :
       Consume(Ranged(to_pos(From(expected), o1), to_pos(From(expected), o2), t),
               Prefix(expected, o1) \o t \o Suffix(expected, o2))

NextReplace ==
  \/ Call
  \/ RangedEvent
  \/ FullEvent
  \/ TrailingEvent
  \/ Return

SpecReplace == Init /\ [][NextReplace]_vars


\* --------------------------------------- SpecRun: a call runs to its end
\* the steps of a started call: the loop takes the iterator's next event,
\* or the iterator is exhausted and the code after the loop runs
Running ==
  \/ RangedEvent
  \/ FullEvent
  \/ Return

\* the documents of up to MaxSrc bytes
InitRun ==
  /\ \E s \in Strs(MaxSrc) : Idle(From(s))
  /\ buf = Default /\ last = NoCall /\ conv = NoConv /\ files = <<>> /\ NoSpan

NextRun ==
  \/ Call
  \/ Running

\* the batch is finite and the thread that runs the call is not suspended
\* for ever: the iterator is exhausted in the end, and the code after the
\* loop then runs
SpecRun == InitRun /\ [][NextRun]_vars /\ WF_vars(Return)


\* ---------------------------------------------------------- SpecSpan: Span
\* struct Span {start, end}, and std's Range<usize> with the same fields
Span(s, e) == [start |-> s, end |-> e]
Range(s, e) == [start |-> s, end |-> e]

\* impl From<Range<usize>> for Span: the fields are copied as they are
from_range(r) == Span(r.start, r.end)

\* impl From<usize> for Span
from_usize(n) == Span(n, n)

\* impl Iterator for Span: Range::next on the Span seen as a Range
\* (deref_mut, the two having the same fields in the same order)
next(sp) ==
  IF sp.start < sp.end
  THEN [span |-> Span(sp.start + 1, sp.end), item |-> Some(sp.start)]
  ELSE [span |-> sp, item |-> None]

\* next_back that yields the end before it steps back
next_back_yields_end(sp) ==
  IF sp.start < sp.end
  THEN [span |-> Span(sp.start, sp.end - 1), item |-> Some(sp.end)]
  ELSE [span |-> sp, item |-> None]

\* impl DoubleEndedIterator for Span: Range::next_back
next_back(sp) ==
  IF sp.start < sp.end
  THEN [span |-> Span(sp.start, sp.end - 1), item |-> Some(sp.end - 1)]
  ELSE [span |-> sp, item |-> None]

\* a Span converted from any Range<usize>, its start after its end included
\* (a..b with a > b is a value of Range), or from an offset
InitSpan ==
  /\ Idle(Default)
  /\ buf = Default /\ last = NoCall /\ conv = NoConv /\ files = <<>>
  /\ yielded = <<>>
  /\ \/ \E a \in 0..MaxOff : \E b \in 0..MaxOff :
          /\ span = from_range(Range(a, b))
          /\ origin = [start |-> a, end |-> b, via |-> "range"]
     \/ \E n \in 0..MaxOff :
          /\ span = from_usize(n)
          /\ origin = [start |-> n, end |-> n, via |-> "usize"]

SpanNext ==
  /\ Len(yielded) < MaxYield
  /\ span' = next(span).span
  /\ yielded' = Append(yielded, [dir |-> "next", item |-> next(span).item])
  /\ UNCHANGED <<self, pc, buf, last, conv, files, origin>>
  /\ UNCHANGED callvars

SpanNextBack ==
  /\ Len(yielded) < MaxYield
  /\ span' = next_back(span).span
  /\ yielded' = Append(yielded, [dir |-> "next_back", item |-> next_back(span).item])
  /\ UNCHANGED <<self, pc, buf, last, conv, files, origin>>
  /\ UNCHANGED callvars

NextSpan ==
  \/ SpanNext
  \/ SpanNextBack

SpecSpan == InitSpan /\ [][NextSpan]_vars

\* ================================================================ claims
AllRanged(evs) == \A k \in 1..Len(evs) : evs[k].range # None

\* length of the longest common prefix of two strings
LCP(x, y) ==
  LET d == first_diff(x, y)
  IN IF d = None THEN Min(Len(x), Len(y)) ELSE Unwrap(d)

\* C1: a batch of in-range events (each start <= end canonical in the
\* document left by the events before it) never fails, its result has the
\* content obtained by replacing [start, end) by the text event by event,
\* and splitting the batch in two calls at any point gives the same content.
C1_BatchIsSequential ==
  /\ pc # "panic"
  /\ pc = "done" =>
       /\ ~finish(self, St).ub
       /\ ret.s = expected
       /\ \A k \in 0..Len(batch) :
            LET mid == apply_changes(self, Prefix(batch, k))
                fin == apply_changes(mid.buf, Suffix(batch, k))
            IN mid.ok /\ ~mid.ub /\ fin.ok /\ ~fin.ub /\ fin.buf.s = ret.s

\* a returned batch of two ranged events whose second one forced a flush
C1_Witness ==
  /\ pc = "done" /\ Len(batch) = 2 /\ AllRanged(batch)
  /\ old # None
  /\ PosLt(Unwrap(batch[2].range).start, Unwrap(batch[1].range).end)
  /\ ret.s = expected /\ ret.s # self.s

\* C2: one ranged event (start, end, text) yields
\* old[0..idx(start)) ++ text ++ old[idx(end)..], on line 0 and on later
\* lines; when the text's first byte differs from the byte it replaces,
\* changed_from is start (as in "abc\ndef\n", {1,0}-{1,3}, "xyz").
C2_SingleRangedEdit ==
  (pc = "done" /\ Len(batch) = 1 /\ batch[1].range # None) =>
    LET r == Unwrap(batch[1].range)
        text == batch[1].text
        i == Unwrap(to_idx(self, r.start))
        j == Unwrap(to_idx(self, r.end))
    IN /\ ret.s = Prefix(self.s, i) \o text \o Suffix(self.s, j)
       /\ (i < j /\ text # <<>> /\ text[1] # self.s[i + 1]) => changed = r.start

C2_Witness ==
  /\ pc = "done" /\ Len(batch) = 1 /\ batch[1].range # None
  /\ Unwrap(batch[1].range).start.line >= 1
  /\ Unwrap(batch[1].range).start # Unwrap(batch[1].range).end
  /\ batch[1].text # <<>>
  /\ changed = Unwrap(batch[1].range).start
  /\ ret.s # self.s

\* C3: for a non-empty batch of ranged events that changes the content, the
\* offset of changed_from in the new buffer is the length of the longest
\* common prefix of old and new content.
C3_ChangedFromIsFirstDifference ==
  (pc = "done" /\ batch # <<>> /\ AllRanged(batch) /\ ret.s # self.s) =>
    to_idx(ret, changed) = Some(LCP(self.s, ret.s))

\* C4: a batch that is one full-document replace returns changed_from {0,0}.
C4_FullReplaceChangedFromStart ==
  (pc = "done" /\ Len(batch) = 1 /\ batch[1].range = None) =>
    changed = Position(0, 0)

\* C5: after any sequence of extend, extend_until (target >= end) and
\* truncate calls on an empty or snapshot-built buffer, lines is strictly
\* ascending, every entry is one past a newline, and there are as many
\* entries as newlines.
C5_LineIndexInvariant == LineInv(buf)

\* the target is reachable within the source: some prefix of the source,
\* appended to the buffer, ends the buffer at the target
Reachable(b, s, pos) ==
  \E k \in 0..Len(s) : end(From(b.s \o Prefix(s, k))) = pos

\* C6: after extend_until(source, target) with target >= end reachable in
\* source, end() is the target and the content is the previous content
\* followed by a prefix of source.
C6_ExtendUntilReachesTarget ==
  (last.op = "extend_until" /\ Reachable(last.pre, last.src, last.pos)) =>
    /\ end(buf) = last.pos
    /\ \E k \in 0..Len(last.src) : buf.s = last.pre.s \o Prefix(last.src, k)

\* C7: in a buffer satisfying the line-index invariant, to_idx(to_pos(o)) is
\* Some(o) for every offset o in [0, len].
C7_RoundTrip ==
  LineInv(buf) =>
    /\ \A o \in 0..Len(buf.s) : to_idx(buf, to_pos(buf, o)) = Some(o)
    /\ conv.op = "to_pos" => conv.back = Some(conv.idx)

\* an offset inside the third line went there and back
C7_Witness ==
  /\ LineInv(buf) /\ Len(buf.lines) >= 2
  /\ conv.op = "to_pos" /\ conv.pos.line = 2 /\ conv.pos.character > 0
  /\ conv.back = Some(conv.idx)

\* C8: in a buffer satisfying the line-index invariant, to_pos is strictly
\* increasing in the lexicographic order on (line, character).
C8_Monotone ==
  LineInv(buf) =>
    \A o2 \in 0..Len(buf.s) : \A o1 \in 0..(o2 - 1) :
      LET p1 == to_pos(buf, o1)
          p2 == to_pos(buf, o2)
      IN p1.line <= p2.line /\ (p1.line = p2.line => p1.character < p2.character)

\* a converted offset that starts a line, in a buffer where some other
\* offset follows its predecessor on the same line
C8_Witness ==
  /\ LineInv(buf) /\ Len(buf.lines) >= 1
  /\ conv.op = "to_pos" /\ conv.idx >= 1
  /\ conv.pos = Position(to_pos(buf, conv.idx - 1).line + 1, 0)
  /\ \E o \in 1..Len(buf.s) :
       /\ to_pos(buf, o).line = to_pos(buf, o - 1).line
       /\ to_pos(buf, o).character = to_pos(buf, o - 1).character + 1

\* C9: an empty batch returns a buffer with the content and line index of
\* the input, and changed_from is the input's end-of-content position.
C9_EmptyBatchIdentity ==
  (pc = "done" /\ batch = <<>>) =>
    /\ ret.s = self.s
    /\ ret.lines = self.lines
    /\ changed = to_pos(self, Len(self.s))

C9_Witness ==
  /\ pc = "done" /\ batch = <<>>
  /\ Len(self.lines) >= 1 /\ Len(self.s) > self.lines[Len(self.lines)]
  /\ ret = self

\* C10: from the call to the return, and while the caller uses the returned
\* buffer, the input buffer's content and line index do not change.
C10_InputUntouched ==
  [][pc' # "idle" => self' = self]_vars

\* the caller has extended or truncated the buffer returned for a
\* two-line document, which it still holds unchanged
C10_Witness ==
  /\ pc = "held"
  /\ ret.s # self.s /\ Len(self.lines) >= 1 /\ self = From(self.s)

\* C11: a Position on a line beyond the line index resolves to None and no
\* operation fails for it: a batch holding a ranged event that starts on a
\* line beyond the document's last line still runs to its return, without a
\* panic and without slicing out of bounds.
C11_BeyondLineNoFailure ==
  /\ pc # "panic"
  /\ pc = "done" => ~finish(self, St).ub

\* C12: truncate(position) changes neither content nor line index when
\* position.line exceeds the number of line-index entries, or when the
\* offset it resolves to is not below the content length.
C12_TruncateNoOp ==
  last.op = "truncate" =>
    LET b == last.pre
        p == last.pos
        beyond == p.line > Len(b.lines)
        base == IF p.line = 0 THEN 0 ELSE b.lines[p.line]
    IN (beyond \/ base + p.character >= Len(b.s)) => buf = b

\* a truncate of a two-line buffer at a position on a line beyond its index
C12_Witness ==
  /\ last.op = "truncate" /\ buf = last.pre
  /\ Len(last.pre.lines) >= 1 /\ Len(last.pre.s) > Len(last.pre.lines)
  /\ last.pos.line > Len(last.pre.lines)

\* C13: after extend(s) the content is the previous content followed by s,
\* the line count has grown by the number of newlines of s, the entries
\* stored before are unchanged, and the new entries are exactly the
\* (previous length + offset of a newline in s + 1), in ascending order.
C13_ExtendAppends ==
  last.op = "extend" =>
    LET b == last.pre
        s == last.src
        n == Len(b.lines)
    IN /\ buf.s = b.s \o s
       /\ num_lines(buf) = n + NewlineCount(s)
       /\ Prefix(buf.lines, n) = b.lines
       /\ {buf.lines[k] : k \in (n + 1)..Len(buf.lines)}
            = {Len(b.s) + (i - 1) + 1 : i \in {j \in 1..Len(s) : s[j] = NL}}
       /\ \A k \in (n + 1)..(Len(buf.lines) - 1) : buf.lines[k] < buf.lines[k + 1]

\* an extend by a string with two newlines of a buffer that had content
\* and a line start
C13_Witness ==
  /\ last.op = "extend" /\ NewlineCount(last.src) >= 2
  /\ last.pre.lines # <<>> /\ Len(last.pre.s) >= 2
  /\ num_lines(buf) = Len(last.pre.lines) + 2

\* C14: two handles made by new from the same path are equal and feed the
\* hasher the same data; two handles are equal, and hash alike, exactly
\* according to their (path, URI) values; a clone is equal to, and hashes
\* as, the handle it was cloned from.
C14_FileRefEquality ==
  \A i \in 1..Len(files) : \A j \in 1..Len(files) :
    LET x == files[i]
        y == files[j]
    IN /\ (x.via = "new" /\ y.via = "new" /\ x.arg = y.arg) =>
            eq(x, y) /\ hash(x, <<>>) = hash(y, <<>>)
       /\ eq(x, y) <=> (x.path = y.path /\ x.url = y.url)
       /\ (x.path = y.path /\ x.url = y.url) => hash(x, <<>>) = hash(y, <<>>)
       /\ (y.via = "clone" /\ y.arg = i) =>
            eq(x, y) /\ hash(x, <<>>) = hash(y, <<>>)

\* two allocations made by new from one path, a clone of the first, and a
\* handle made from a URL of the same path that is not the path's own URL
C14_Witness ==
  \E i, j, k, l \in 1..Len(files) :
    /\ files[i].via = "new" /\ files[j].via = "new"
    /\ files[i].arg = files[j].arg /\ files[i].arc # files[j].arc
    /\ files[k].via = "clone" /\ files[k].arg = i
    /\ files[l].via = "from_url" /\ files[l].path = files[i].path
    /\ ~eq(files[l], files[i])

\* C15: inside the loop of apply_changes, after each event of an in-range
\* batch, out's content followed by uncopied is the document obtained by
\* applying the events so far to the original content, out satisfies the
\* line-index invariant, and uncopied is a suffix of the string being read
\* (the original content, or the buffer of the last flush).
C15_LoopInvariant ==
  pc = "loop" =>
    LET read == IF old = None THEN self.s ELSE Unwrap(old).s
    IN /\ out.s \o uncopied = expected
       /\ LineInv(out)
       /\ Len(uncopied) <= Len(read)
       /\ uncopied = Suffix(read, Len(read) - Len(uncopied))

\* two ranged events, the second of which flushed, with bytes of the flushed
\* buffer still to copy and a line start in out
C15_Witness ==
  /\ pc = "loop" /\ Len(batch) = 2 /\ AllRanged(batch)
  /\ old # None /\ uncopied # <<>> /\ out.lines # <<>>

\* C16: for a ranged event with in-range start <= end, after
\* extend_until(uncopied, end) and truncate(start): out.end() is start; the
\* bytes out held before the event are unchanged (all of them when the event
\* did not flush, those before start when it did); out's line index has
\* exactly start.line entries; uncopied is the suffix of the source that
\* begins at end; the replaced span is in neither.  The iteration then
\* appends the event's text to that out.
C16_RangedEventCut ==
  [][(pc = "loop" /\ pc' = "loop" /\ Len(batch') = Len(batch) + 1
        /\ batch'[Len(batch')].range # None) =>
       LET ev == batch'[Len(batch')]
           r == Unwrap(ev.range)
           m == cut(St, r)
           o1 == Unwrap(to_idx(From(expected), r.start))
           o2 == Unwrap(to_idx(From(expected), r.end))
           keep == Min(Len(out.s), Len(m.out.s))
           read == IF m.old = None THEN self.s ELSE Unwrap(m.old).s
       IN /\ end(m.out) = r.start
          /\ Prefix(m.out.s, keep) = Prefix(out.s, keep)
          /\ ~PosLt(r.start, end(out)) => keep = Len(out.s)
          /\ Len(m.out.lines) = r.start.line
          /\ m.out.s = Prefix(expected, o1)
          /\ m.uncopied = Suffix(expected, o2)
          /\ Len(m.uncopied) <= Len(read)
          /\ m.uncopied = Suffix(read, Len(read) - Len(m.uncopied))
          /\ out' = extend(m.out, ev.text)
          /\ uncopied' = m.uncopied
     ]_vars

\* a second ranged event that flushed and replaced a non-empty span starting
\* on a later line, leaving bytes after the span
C16_Witness ==
  /\ pc = "loop" /\ Len(batch) = 2 /\ batch[2].range # None
  /\ old # None /\ uncopied # <<>>
  /\ LET r == Unwrap(batch[2].range)
     IN r.start # r.end /\ r.start.line >= 1 /\ Len(out.lines) >= r.start.line

\* C17: for a batch of ranged events only (in-range, start <= end), the
\* least start of the batch, which is what first_change holds, resolves in
\* the new buffer to an offset m that is at most the old and the new content
\* length, and old and new content hold the same byte at every offset
\* below m.
C17_MinStartResolves ==
  (pc = "done" /\ batch # <<>> /\ AllRanged(batch)) =>
    LET starts == {Unwrap(batch[k].range).start : k \in 1..Len(batch)}
        least == CHOOSE p \in starts : \A q \in starts : PosLe(p, q)
        r == to_idx(ret, least)
    IN /\ first_change = Some(least)
       /\ r # None
       /\ Unwrap(r) <= Len(self.s) /\ Unwrap(r) <= Len(ret.s)
       /\ Prefix(self.s, Unwrap(r)) = Prefix(ret.s, Unwrap(r))

\* two ranged events, the later one starting first, on a line after the
\* first, and the new content shorter than the old
C17_Witness ==
  /\ pc = "done" /\ Len(batch) = 2 /\ AllRanged(batch)
  /\ PosLt(Unwrap(batch[2].range).start, Unwrap(batch[1].range).start)
  /\ Unwrap(batch[2].range).start.line >= 1
  /\ Len(ret.s) < Len(self.s)

\* C18: in the final comparison, when a byte differs between old and new
\* content at an offset from the resolved least start up to the shorter
\* length, changed_from is the position in the new buffer of the first such
\* offset; when none differs there, changed_from is the new buffer's end(),
\* also when the new content is strictly longer than the old.
C18_FinalComparison ==
  (pc = "done" /\ first_change # None) =>
    LET m == Unwrap(to_idx(ret, Unwrap(first_change)))
        W == {o \in m..(Min(Len(self.s), Len(ret.s)) - 1) : self.s[o + 1] # ret.s[o + 1]}
    IN IF W # {}
       THEN changed = to_pos(ret, CHOOSE o \in W : \A q \in W : o <= q)
       ELSE changed = to_pos(ret, Len(ret.s))

\* the first differing byte lies after the resolved least start, itself
\* after the start of the buffer
C18_Witness ==
  /\ pc = "done" /\ first_change # None
  /\ LET m == Unwrap(to_idx(ret, Unwrap(first_change)))
         W == {o \in m..(Min(Len(self.s), Len(ret.s)) - 1) : self.s[o + 1] # ret.s[o + 1]}
     IN /\ m >= 1 /\ W # {}
        /\ changed = to_pos(ret, CHOOSE o \in W : \A q \in W : o <= q)
        /\ changed # Unwrap(first_change)

\* C19: the buffer produced by a batch that contains a full replace does not
\* depend on the old content nor on the events before the last full replace:
\* whatever the buffer and the events before, content and line index are
\* those of applying the events after it to the replacement text, and those
\* of the same replace and trailing events applied to any other buffer.
C19_FullReplaceResets ==
  (pc = "done" /\ ~AllRanged(batch)) =>
    LET k == CHOOSE i \in 1..Len(batch) :
               /\ batch[i].range = None
               /\ \A j \in (i + 1)..Len(batch) : batch[j].range # None
        tail == Suffix(batch, k)
        direct == apply_changes(From(batch[k].text), tail)
    IN /\ direct.ok /\ ~direct.ub /\ ret = direct.buf
       /\ \A s \in Strs(MaxSrc) :
            LET other == apply_changes(From(s), Suffix(batch, k - 1))
            IN other.ok /\ ~other.ub /\ other.buf = ret

\* a ranged event, then a full replace, then a ranged event that adds a line
\* to the replacement text, on a non-empty old content
C19_Witness ==
  /\ pc = "done" /\ Len(batch) = 3 /\ self.s # <<>>
  /\ batch[1].range # None /\ batch[1].text # <<>>
  /\ batch[2].range = None /\ batch[2].text # <<>>
  /\ batch[3].range # None /\ batch[3].text = <<NL>>
  /\ Len(ret.s) = 2 /\ ret.lines # <<>>

\* C20: for every source and target >= the buffer's end, the string returned
\* by extend_until is a suffix of source, and source is the shortest prefix
\* of source that takes the buffer's end to target (all of source when none
\* does) followed by the returned remainder, whether the target is on the
\* end's line or on a later one.
C20_ExtendUntilRemainder ==
  last.op = "extend_until" =>
    LET b == last.pre
        s == last.src
        K == {k \in 0..Len(s) : end(extend(b, Prefix(s, k))) = last.pos}
        n == IF K = {} THEN Len(s) ELSE CHOOSE k \in K : \A j \in K : k <= j
    IN /\ Len(last.rest) <= Len(s)
       /\ last.rest = Suffix(s, Len(s) - Len(last.rest))
       /\ s = Prefix(s, n) \o last.rest

\* C21: on a buffer satisfying the line-index invariant, truncate at a
\* position that to_idx resolves to an offset i strictly below the content
\* length leaves the first i bytes and exactly the first position.line
\* line-index entries; when the position is canonical (it is to_pos(i)) the
\* result is the buffer built from content[0..i) and satisfies the
\* invariant.
C21_TruncateCuts ==
  (last.op = "truncate" /\ LineInv(last.pre)
     /\ to_idx(last.pre, last.pos) # None
     /\ Unwrap(to_idx(last.pre, last.pos)) < Len(last.pre.s)) =>
    LET b == last.pre
        i == Unwrap(to_idx(b, last.pos))
    IN /\ buf.s = Prefix(b.s, i)
       /\ Len(buf.lines) = last.pos.line
       /\ buf.lines = Prefix(b.lines, last.pos.line)
       /\ last.pos = to_pos(b, i) => buf = From(Prefix(b.s, i)) /\ LineInv(buf)

\* a canonical cut on line 1 of a buffer of three lines, dropping a line
\* start
C21_Witness ==
  /\ last.op = "truncate" /\ LineInv(last.pre)
  /\ Len(last.pre.lines) >= 2 /\ last.pos.line = 1
  /\ to_idx(last.pre, last.pos) # None
  /\ Unwrap(to_idx(last.pre, last.pos)) < Len(last.pre.s)
  /\ last.pos = to_pos(last.pre, Unwrap(to_idx(last.pre, last.pos)))
  /\ Len(buf.lines) = 1 /\ buf.s # <<>>

\* C22: in a buffer satisfying the line-index invariant, for every offset o
\* of [0, len], to_pos(o).line is the number of newline bytes below o and
\* to_pos(o).character is o minus the start of that line (0 for line 0,
\* else one past the last newline below o); when o is a stored line start,
\* the result is (its index in lines + 1, 0).
C22_ToPosCountsNewlines ==
  (conv.op = "to_pos" /\ LineInv(buf)) =>
    LET o == conv.idx
        below == {i \in 1..o : buf.s[i] = NL}
        line_start == IF below = {} THEN 0
                      ELSE CHOOSE i \in below : \A j \in below : j <= i
    IN /\ conv.pos.line = Cardinality(below)
       /\ conv.pos.character = o - line_start
       /\ \A k \in 1..Len(buf.lines) :
            buf.lines[k] = o => conv.pos = Position(k, 0)

\* an offset inside the second line, past its first byte, and not a line
\* start
C22_Witness ==
  /\ conv.op = "to_pos" /\ LineInv(buf)
  /\ conv.pos.line = 1 /\ conv.pos.character >= 1
  /\ buf.lines[1] >= 2 /\ Len(buf.lines) >= 2

\* C23: to_idx returns Some(character) on line 0, Some(lines[line - 1] +
\* character) for 1 <= line <= lines.len(), and None exactly when line >
\* lines.len(); the character is not checked, so the offset may exceed the
\* content length.
C23_ToIdxCases ==
  conv.op = "to_idx" =>
    LET p == conv.pos
    IN /\ p.line = 0 => conv.back = Some(p.character)
       /\ (1 <= p.line /\ p.line <= Len(buf.lines)) =>
            conv.back = Some(buf.lines[p.line] + p.character)
       /\ conv.back = None <=> p.line > Len(buf.lines)

\* a position on a later line whose offset lies beyond the content
C23_Witness ==
  /\ conv.op = "to_idx" /\ conv.pos.line >= 1
  /\ conv.back # None /\ Unwrap(conv.back) > Len(buf.s)

\* C24: a call on a finite batch of in-range events runs to its return,
\* having processed each event once and in order: whenever the call is in
\* its loop it eventually has returned, and the returned content is that of
\* the events applied one by one in the order the iterator gave them.
C24_RunsToCompletion ==
  (pc = "loop") ~> (pc = "done" /\ ret.s = expected)

\* a returned call of two inserting events, the second starting before the
\* first, so that the loop flushed and re-read its own output; both texts
\* are in the result
C24_Witness ==
  /\ pc = "done" /\ Len(batch) = MaxEvents /\ AllRanged(batch)
  /\ PosLt(Unwrap(batch[2].range).start, Unwrap(batch[1].range).start)
  /\ batch[1].text # <<>> /\ batch[2].text # <<>>
  /\ ret.s = expected /\ Len(ret.s) = Len(self.s) + 2

\* C25: building a buffer from a string s gives the content and line index
\* of extending an empty buffer with s, and extend(a) followed by extend(b)
\* gives the content and line index of extend(a ++ b).
C25_ExtendIsAdditive ==
  /\ \A s \in Strs(MaxSrc) : From(s) = extend(Default, s)
  /\ last.op = "extend" =>
       /\ last.pre = Default => buf = From(last.src)
       /\ \A b \in Strs(MaxSrc) :
            extend(buf, b) = extend(last.pre, last.src \o b)

\* an empty buffer extended by a string that holds a newline, after which a
\* further extend by a newline adds a line start behind it
C25_Witness ==
  /\ last.op = "extend" /\ last.pre = Default
  /\ Len(last.src) = MaxSrc /\ buf.lines # <<>>
  /\ extend(buf, <<NL>>).lines = Append(buf.lines, Len(last.src) + 1)

\* C26: for a batch of at least one in-range event, the returned
\* changed_from is a canonical position of the new buffer (to_pos of an
\* offset of it), it is at most the new buffer's end(), and for a batch of
\* ranged events only it is at least the least start of the batch.
C26_ChangedFromInRange ==
  (pc = "done" /\ batch # <<>>) =>
    /\ \E o \in 0..Len(ret.s) : changed = to_pos(ret, o)
    /\ PosLe(changed, end(ret))
    /\ AllRanged(batch) =>
         LET starts == {Unwrap(batch[k].range).start : k \in 1..Len(batch)}
             least == CHOOSE p \in starts : \A q \in starts : PosLe(p, q)
         IN PosLe(least, changed)

\* ranged events starting on the second line, a change reported strictly
\* between the least start and the end of the new buffer
C26_Witness ==
  /\ pc = "done" /\ batch # <<>> /\ AllRanged(batch)
  /\ \A k \in 1..Len(batch) : Unwrap(batch[k].range).start.line >= 1
  /\ \A k \in 1..Len(batch) : PosLt(Unwrap(batch[k].range).start, changed)
  /\ PosLt(changed, end(ret))

\* C27: iterating a Span {start, end} with start <= end forward yields
\* start, start + 1, ... in ascending order, backward yields end - 1,
\* end - 2, ... in descending order; under any interleaving each offset of
\* [start, end) is yielded at most once, and None is returned only when all
\* of them have been yielded; a Span built from a single offset n is {n, n}
\* and yields nothing.
C27_SpanIteration ==
  origin.start <= origin.end =>
    LET some(k) == yielded[k].item # None
        fw == SelectSeq(yielded, LAMBDA y : y.dir = "next" /\ y.item # None)
        bw == SelectSeq(yielded, LAMBDA y : y.dir = "next_back" /\ y.item # None)
        items(n) == {Unwrap(yielded[k].item) : k \in {j \in 1..n : some(j)}}
    IN /\ \A k \in 1..Len(fw) : fw[k].item = Some(origin.start + (k - 1))
       /\ \A k \in 1..Len(bw) : bw[k].item = Some(origin.end - k)
       /\ Cardinality(items(Len(yielded))) = Len(fw) + Len(bw)
       /\ items(Len(yielded)) \subseteq origin.start..(origin.end - 1)
       /\ \A k \in 1..Len(yielded) :
            ~some(k) => items(k) = origin.start..(origin.end - 1)
       /\ span = Span(origin.start + Len(fw), origin.end - Len(bw))
       /\ origin.via = "usize" =>
            /\ origin.start = origin.end
            /\ \A k \in 1..Len(yielded) : ~some(k)

\* a Span of three offsets walked from both ends until it returned None
C27_Witness ==
  /\ origin.end = origin.start + 3 /\ Len(yielded) = 4
  /\ yielded[1].dir = "next_back" /\ yielded[2].dir = "next"
  /\ yielded[3].dir = "next_back" /\ yielded[3].item = Some(origin.start + 1)
  /\ yielded[4].item = None

\* C28: every Span has start <= end; none with start > end comes out of the
\* From<Range<usize>> and From<usize> conversions.
C28_SpanOrdered ==
  span.start <= span.end

====
